---- MODULE Spec2Model ----
(***************************************************************************)
(* Model of download_images.py: the download pipeline of main() with the   *)
(* retrying download_image() jobs, in sequential and in parallel mode, and *)
(* the query-string canonicalisation of extract_image_urls().              *)
(*                                                                         *)
(* Strings that the code takes apart (URLs, paths, query strings) are      *)
(* sequences of tokens, so that parsing and re-encoding are computed.      *)
(*                                                                         *)
(* Spec        the pipeline on URL lists of up to MaxURLs URLs             *)
(* SpecPool    the parallel branch with more URLs than worker threads      *)
(* SpecExtract the loop of extract_image_urls() over the anchors of a page *)
(***************************************************************************)
EXTENDS Integers, Sequences, FiniteSets, TLC

\* ------------------------------------------------------------------ bounds
\* Longest URL list handed to the download loop.
MaxURLs == 2
\* Number of chunks iter_content() yields for one image.
NChunks == 2

\* ------------------------------------------------------- program constants
\* ThreadPoolExecutor(max_workers=5)
max_workers == 5
\* @retry(stop=stop_after_attempt(3), ...)
max_attempts == 3

\* -------------------------------------------------- strings as token lists
\* Position of the first token t in s, 0 if there is none.
Find(s, t) ==
    IF \E i \in 1..Len(s) : s[i] = t
    THEN CHOOSE i \in 1..Len(s) : s[i] = t /\ \A j \in 1..(i - 1) : s[j] # t
    ELSE 0

\* s.split(sep)
RECURSIVE Split(_, _)
Split(s, sep) ==
    IF Find(s, sep) = 0 THEN <<s>>
    ELSE <<SubSeq(s, 1, Find(s, sep) - 1)>>
         \o Split(SubSeq(s, Find(s, sep) + 1, Len(s)), sep)

\* sub in s
Contains(s, sub) ==
    \E i \in 1..(Len(s) - Len(sub) + 1) : SubSeq(s, i, i + Len(sub) - 1) = sub

\* s.endswith(suffix)
EndsWith(s, suffix) ==
    /\ Len(s) >= Len(suffix)
    /\ SubSeq(s, Len(s) - Len(suffix) + 1, Len(s)) = suffix

\* str.lower(), token by token; the tokens below are the ones of the inputs
\* that have upper-case letters.
LowerToken(t) ==
    CASE t = "Width" -> "width"
      [] t = "HEIGHT" -> "height"
      [] t = ".JPG" -> ".jpg"
      [] OTHER -> t

lower(s) == [k \in 1..Len(s) |-> LowerToken(s[k])]

\* ----------------------------------------------------------- urllib.parse
\* urlparse(url): scheme ":" "//" netloc path "?" query "#" fragment.
\* (No ";" occurs in the inputs, so params is always empty.)
urlparse(url) ==
    LET h == Find(url, "#")
        noFrag == IF h = 0 THEN url ELSE SubSeq(url, 1, h - 1)
        frag == IF h = 0 THEN <<>> ELSE SubSeq(url, h + 1, Len(url))
        q == Find(noFrag, "?")
        noQuery == IF q = 0 THEN noFrag ELSE SubSeq(noFrag, 1, q - 1)
        query == IF q = 0 THEN <<>> ELSE SubSeq(noFrag, q + 1, Len(noFrag))
        hasScheme == Len(noQuery) >= 2 /\ noQuery[2] = ":"
        rest == IF hasScheme THEN SubSeq(noQuery, 3, Len(noQuery)) ELSE noQuery
        hasNetloc == Len(rest) >= 2 /\ rest[1] = "//"
    IN  [scheme |-> IF hasScheme THEN noQuery[1] ELSE "",
         netloc |-> IF hasNetloc THEN rest[2] ELSE "",
         path |-> IF hasNetloc THEN SubSeq(rest, 3, Len(rest)) ELSE rest,
         params |-> <<>>,
         query |-> query,
         fragment |-> frag]

\* urlunparse((scheme, netloc, path, params, query, fragment))
urlunparse(u) ==
    LET p1 == IF u.netloc # ""
              THEN <<"//", u.netloc>>
                   \o (IF u.path # <<>> /\ u.path[1] # "/" THEN <<"/">> ELSE <<>>)
                   \o u.path
              ELSE u.path
        p2 == IF u.scheme # "" THEN <<u.scheme, ":">> \o p1 ELSE p1
        p3 == IF u.query # <<>> THEN p2 \o <<"?">> \o u.query ELSE p2
    IN  IF u.fragment # <<>> THEN p3 \o <<"#">> \o u.fragment ELSE p3

\* urljoin(base, url) for a base without path, query or fragment.
\* (No "." or ".." path segment occurs in the inputs.)
urljoin(base, url) ==
    LET b == urlparse(base)
        u == urlparse(url)
    IN  IF url = <<>> THEN base
        ELSE IF u.scheme # "" /\ u.scheme # b.scheme THEN url
        ELSE IF u.netloc # ""
             THEN urlunparse([u EXCEPT !.scheme = b.scheme])
        ELSE urlunparse([u EXCEPT !.scheme = b.scheme, !.netloc = b.netloc])

\* unquote() and quote_plus(), token by token: of the tokens of the inputs
\* only "/" is a character that quote_plus escapes.
UnquoteToken(t) == IF t = "%2F" THEN "/" ELSE t
unquote(s) == [k \in 1..Len(s) |-> UnquoteToken(s[k])]

QuoteToken(t) == IF t = "/" THEN "%2F" ELSE t
quote_plus(s) == [k \in 1..Len(s) |-> QuoteToken(s[k])]

\* The (name, value) pairs of a query string, as parse_qsl yields them:
\* pieces without "=" or with an empty value are dropped
\* (keep_blank_values=False), names and values are unquoted.
parse_qsl(query) ==
    LET pieces == IF query = <<>> THEN <<>> ELSE Split(query, "&")
        pair(piece) ==
            LET e == Find(piece, "=")
            IN  IF e = 0 THEN [name |-> unquote(piece), value |-> <<>>]
                ELSE [name |-> unquote(SubSeq(piece, 1, e - 1)),
                      value |-> unquote(SubSeq(piece, e + 1, Len(piece)))]
        all == [k \in 1..Len(pieces) |-> pair(pieces[k])]
    IN  SelectSeq(all, LAMBDA nv : nv.value # <<>>)

\* parse_qs(query): a dict name -> list of values.  A Python dict keeps its
\* keys in insertion order, so the dict is the list of its items in the order
\* in which the names first occur.
RECURSIVE DictOf(_, _)
DictOf(pairs, d) ==
    IF pairs = <<>> THEN d
    ELSE LET nv == Head(pairs)
             known == \E k \in 1..Len(d) : d[k].name = nv.name
         IN  DictOf(Tail(pairs),
                    IF known
                    THEN [k \in 1..Len(d) |->
                            IF d[k].name = nv.name
                            THEN [d[k] EXCEPT !.values = Append(@, nv.value)]
                            ELSE d[k]]
                    ELSE Append(d, [name |-> nv.name, values |-> <<nv.value>>]))

parse_qs(query) == DictOf(parse_qsl(query), <<>>)

\* query_dict.pop(name, None)
pop(d, name) == SelectSeq(d, LAMBDA item : item.name # name)

\* urlencode(query_dict, doseq=True): quote_plus(name)=quote_plus(value) for
\* every value of every item, in the dict's iteration order, joined by "&".
RECURSIVE EncodeValues(_, _)
EncodeValues(name, values) ==
    IF values = <<>> THEN <<>>
    ELSE <<quote_plus(name) \o <<"=">> \o quote_plus(Head(values))>>
         \o EncodeValues(name, Tail(values))

RECURSIVE EncodeItems(_)
EncodeItems(d) ==
    IF d = <<>> THEN <<>>
    ELSE EncodeValues(Head(d).name, Head(d).values) \o EncodeItems(Tail(d))

RECURSIVE Join(_, _)
Join(parts, sep) ==
    IF parts = <<>> THEN <<>>
    ELSE IF Len(parts) = 1 THEN Head(parts)
    ELSE Head(parts) \o <<sep>> \o Join(Tail(parts), sep)

urlencode(d) == Join(EncodeItems(d), "&")

\* os.path.basename(path): what follows the last "/".
LastSlash(p) ==
    CHOOSE i \in 0..Len(p) :
        /\ (i = 0 \/ p[i] = "/")
        /\ \A j \in (i + 1)..Len(p) : p[j] # "/"

basename(p) == SubSeq(p, LastSlash(p) + 1, Len(p))

\* args.output (default 'downloaded_images')
output_dir == "downloaded_images"

\* os.path.join(output_dir, os.path.basename(urlparse(url).path))
local_filename(url) == <<output_dir, "/">> \o basename(urlparse(url).path)

\* args.base_url reduced to scheme and host (main, lines 255-256)
base_url == <<"https", ":", "//", "portal.diakrit.com">>

\* ------------------------------------------------- inputs of the download
\* The URLs the download loop is run on.  The first two differ in the query
\* only, so they derive the same local file name.
RunURLs ==
    { base_url \o <<"/", "orderfiles", "/", "a", ".jpg">>,
      base_url \o <<"/", "orderfiles", "/", "a", ".jpg", "?", "width", "=", "1">>,
      base_url \o <<"/", "orderfiles", "/", "b", ".jpg">> }

\* list(image_urls): every order of every set of at most MaxURLs URLs.
URLLists ==
    { s \in UNION { [1..n -> RunURLs] : n \in 0..MaxURLs } :
        \A i, j \in DOMAIN s : i # j => s[i] # s[j] }

Files == { local_filename(u) : u \in RunURLs }

\* Marks content that a file held before the run started.
OldURL == <<"old">>

\* What a complete, successful fetch of url streams: NChunks chunks.
Content(url) == [k \in 1..NChunks |-> <<url, k>>]

\* A gap left in a file by a write past its end.
Hole == <<OldURL, 0>>

\* f.write(chunk) at the writer's own file offset (pos - 1 chunks in).
WriteAt(bytes, pos, chunk) ==
    [k \in 1..(IF Len(bytes) > pos THEN Len(bytes) ELSE pos) |->
        IF k = pos THEN chunk
        ELSE IF k <= Len(bytes) THEN bytes[k]
        ELSE Hole]

\* ---------------------------------------------- inputs of the extraction
\* Longest query string of an href, in parameters.
MaxParams == 2
\* Largest number of <a href> tags in the page.
MaxAnchors == 2

QueryPairs ==
    { <<"width", "=", "1">>, <<"width", "=", "2">>, <<"Width", "=", "1">>,
      <<"height", "=", "1">>, <<"HEIGHT", "=", "1">>, <<"watermark", "=", "1">> }

Queries ==
    { Join(ps, "&") : ps \in UNION { [1..n -> QueryPairs] : n \in 0..MaxParams } }

OrderFile == <<"/", "orderfiles", "/", "a", ".jpg">>

\* hrefs of the listing page: an order file with any query string, the same
\* with another extension, and links to images outside /orderfiles/, two of
\* which name /orderfiles/ in the query string or in the fragment.
Hrefs ==
    { OrderFile \o (IF q = <<>> THEN <<>> ELSE <<"?">> \o q) : q \in Queries }
    \cup { <<"/", "orderfiles", "/", "a", ".JPG">>,
           <<"/", "orderfiles", "/", "a", ".gif">>,
           <<"/", "img", "/", "a", ".jpg">>,
           <<"/", "img", "/", "a", ".jpg", "?", "ref", "=", "/", "orderfiles", "/">>,
           <<"/", "img", "/", "a", ".jpg", "#", "/", "orderfiles", "/">> }

AnchorLists == UNION { [1..n -> Hrefs] : n \in 0..MaxAnchors }

\* args.extensions
ExtensionArgs == { <<<<".jpg">>>>, <<<<".JPG">>, <<".png">>>> }

\* remove_params as main() builds it from --raw_image, --no_watermark and
\* --remove_params
RemoveParams ==
    [raw_image : BOOLEAN, no_watermark : BOOLEAN,
     additional_params : { <<>>, << <<"watermark">> >> }]

\* ------------------------------------------------- extract_image_urls()
\* '/orderfiles/' in href, and the path ends with one of the extensions
\* (both lower-cased).
IsImageLink(href, exts) ==
    /\ Contains(href, <<"/", "orderfiles", "/">>)
    /\ \E k \in 1..Len(exts) : EndsWith(lower(urlparse(href).path), lower(exts[k]))

RECURSIVE PopAll(_, _)
PopAll(d, names) ==
    IF names = <<>> THEN d ELSE PopAll(pop(d, Head(names)), Tail(names))

\* The query dict after the pops of lines 129-130.
KeepDimensions(d) == d
PopDimensions(d) == pop(pop(d, <<"width">>), <<"height">>)

StripQuery(query, rp) ==
    LET d0 == parse_qs(query)
        d1 == IF rp.raw_image THEN PopDimensions(d0) ELSE d0
        d2 == IF rp.no_watermark THEN pop(d1, <<"watermark">>) ELSE d1
    IN  PopAll(d2, rp.additional_params)

\* full_url of one href: lines 121-154.
full_url(href, rp) ==
    LET parsed_url == urlparse(href)
        new_query == urlencode(StripQuery(parsed_url.query, rp))
        clean_url == urlunparse([parsed_url EXCEPT !.query = new_query])
    IN  urljoin(base_url, clean_url)

VARIABLES
    mainPc,        \* position of main()
    parallel,      \* args.parallel
    html_content,  \* result of get_html_content()
    exitCode,      \* process exit status, -1 while running
    image_urls,    \* the list main() iterates over
    exists,        \* output directory: which files exist
    data,          \* output directory: file contents (chunk sequences)
    jpc,           \* per job: position inside download_image / the retry loop
    attempt,       \* per job: tenacity's attempt number
    off,           \* per job: chunks written through the open file handle
    outcome,       \* per job: "None", "Downloaded", "Skipped", "Failed"
    logged,        \* per job: kinds of messages logged or printed for its URL
    fetchCalls,    \* per job: number of requests.get calls
    fails,         \* per job: number of attempts that raised
    opens,         \* per job: number of times the file was opened for writing
    firstCheck,    \* per job: whether the file was there at the first existence check
    steps,         \* per job: what the current attempt has done so far, in order
    executions,    \* per job: number of times the job was started
    ranBy,         \* per job: threads that ran it (0 is the main thread)
    lastWriter,    \* per file: the job that opened or wrote it last, 0 if none
    queue,         \* executor work queue
    busy,          \* executor: the job each worker thread runs, 0 if idle
    numThreads,    \* executor: worker threads spawned so far
    idleSem,       \* executor: _idle_semaphore
    nextSubmit,    \* index of the next URL to submit
    seqIdx,        \* index of the sequential loop
    a_tags,        \* extract_image_urls: hrefs of soup.find_all('a', href=True)
    extensions,    \* extract_image_urls: args.extensions
    remove_params, \* extract_image_urls: the removal rules
    next_tag,      \* extract_image_urls: position of the for loop
    url_set        \* extract_image_urls: the set image_urls

runVars ==
    <<mainPc, parallel, html_content, exitCode, image_urls, exists, data, jpc,
      attempt, off, outcome, logged, fetchCalls, fails, opens, firstCheck,
      steps, executions, ranBy, lastWriter, queue, busy, numThreads, idleSem,
      nextSubmit, seqIdx>>

extVars == <<a_tags, extensions, remove_params, next_tag, url_set>>

vars == <<runVars, extVars>>

Jobs == DOMAIN image_urls
FileOfFirst(i) == local_filename(image_urls[1])
FileOf(i) == local_filename(image_urls[i])

\* ------------------------------------------------------------------- Init
RunInit ==
    /\ mainPc = "get_html"
    /\ parallel \in BOOLEAN
    /\ html_content = ""
    /\ exitCode = -1
    /\ image_urls = <<>>
    \* the output directory may hold files of an earlier run
    /\ exists \in [Files -> BOOLEAN]
    /\ data = [f \in Files |-> IF exists[f] THEN Content(OldURL) ELSE <<>>]
    /\ jpc = <<>>
    /\ attempt = <<>>
    /\ off = <<>>
    /\ outcome = <<>>
    /\ logged = <<>>
    /\ fetchCalls = <<>>
    /\ fails = <<>>
    /\ opens = <<>>
    /\ firstCheck = <<>>
    /\ steps = <<>>
    /\ executions = <<>>
    /\ ranBy = <<>>
    /\ lastWriter = [f \in Files |-> 0]
    /\ queue = <<>>
    /\ busy = [w \in 1..max_workers |-> 0]
    /\ numThreads = 0
    /\ idleSem = 0
    /\ nextSubmit = 1
    /\ seqIdx = 1

\* extract_image_urls is not running.
ExtractIdle ==
    /\ a_tags = <<>>
    /\ extensions = <<>>
    /\ remove_params = [raw_image |-> FALSE, no_watermark |-> FALSE,
                        additional_params |-> <<>>]
    /\ next_tag = 1
    /\ url_set = {}

fsVars == <<exists, data, lastWriter>>
poolVars == <<queue, busy, numThreads, idleSem, nextSubmit>>
jobHist == <<fetchCalls, fails, opens, firstCheck, executions, ranBy>>

\* ----------------------------------------------------------------- main()
\* get_html_content(): response.text, or "" on a RequestException.
get_html_content ==
    /\ mainPc = "get_html"
    /\ \E html \in {"", "page"} :
        /\ html_content' = html
        /\ IF html = ""
           THEN mainPc' = "exit" /\ exitCode' = 1       \* sys.exit(1)
           ELSE mainPc' = "extract" /\ exitCode' = exitCode
    /\ UNCHANGED <<parallel, image_urls, jpc, attempt, off, outcome, logged,
                   steps, seqIdx>>
    /\ UNCHANGED <<fsVars, poolVars, jobHist, extVars>>

\* image_urls = extract_image_urls(...); sys.exit(1) if it is empty.
extract ==
    /\ mainPc = "extract"
    /\ \E urls \in URLLists :
        /\ image_urls' = urls
        /\ IF urls = <<>>
           THEN mainPc' = "exit" /\ exitCode' = 1       \* sys.exit(1)
           ELSE /\ mainPc' = IF parallel THEN "submit" ELSE "loop"
                /\ exitCode' = exitCode
        /\ jpc' = [i \in DOMAIN urls |-> "queued"]
        /\ attempt' = [i \in DOMAIN urls |-> 0]
        /\ off' = [i \in DOMAIN urls |-> 0]
        /\ outcome' = [i \in DOMAIN urls |-> "None"]
        /\ logged' = [i \in DOMAIN urls |-> {}]
        /\ fetchCalls' = [i \in DOMAIN urls |-> 0]
        /\ fails' = [i \in DOMAIN urls |-> 0]
        /\ opens' = [i \in DOMAIN urls |-> 0]
        /\ firstCheck' = [i \in DOMAIN urls |-> "none"]
        /\ steps' = [i \in DOMAIN urls |-> <<>>]
        /\ executions' = [i \in DOMAIN urls |-> 0]
        /\ ranBy' = [i \in DOMAIN urls |-> {}]
    /\ UNCHANGED <<parallel, html_content, seqIdx>>
    /\ UNCHANGED <<fsVars, poolVars, extVars>>

\* ------------------------------------------------------- download_image()
\* os.path.exists(local_filename)
AlwaysAbsent(f) == FALSE
CreatedThisRun(f) == exists[f] /\ lastWriter[f] # 0
ExistedBeforeRun(f) == exists[f] /\ lastWriter[f] = 0
PathExists(f) == exists[f]

\* The two except clauses ("Failed to download" for a RequestException,
\* "Error downloading" for anything else) both report the exception at error
\* level and re-raise it; the log keeps the level.
ErrorReport(exc) == "error"

\* The worker thread that runs job i goes back to the pool.
ReleaseWorker(i) ==
    /\ busy' = [w \in DOMAIN busy |-> IF busy[w] = i THEN 0 ELSE busy[w]]
    /\ idleSem' = IF \E w \in DOMAIN busy : busy[w] = i THEN idleSem + 1 ELSE idleSem

\* stop_after_attempt(3): no attempt follows attempt number n.
StopOneLater(n) == n >= max_attempts + 1
stop_after_attempt(n) == n >= max_attempts

\* An attempt raises exc: the except clause logs it and re-raises; tenacity
\* sleeps and retries, or raises RetryError after the last attempt.
Raise(i, exc) ==
    /\ logged' = [logged EXCEPT ![i] = @ \cup {ErrorReport(exc)}]
    /\ fails' = [fails EXCEPT ![i] = @ + 1]
    /\ IF ~stop_after_attempt(attempt[i])
       THEN /\ jpc' = [jpc EXCEPT ![i] = "wait"]
            /\ outcome' = outcome
            /\ UNCHANGED <<busy, idleSem>>
       ELSE /\ jpc' = [jpc EXCEPT ![i] = "done"]
            /\ outcome' = [outcome EXCEPT ![i] = "Failed"]
            /\ ReleaseWorker(i)

\* if os.path.exists(local_filename): report "Already exists" and return
check(i) ==
    /\ i \in Jobs
    /\ jpc[i] = "check"
    /\ firstCheck' =
         IF attempt[i] = 1
         THEN [firstCheck EXCEPT ![i] =
                 IF exists[FileOf(i)] THEN "present" ELSE "absent"]
         ELSE firstCheck
    /\ steps' = [steps EXCEPT ![i] =
                   Append(@, IF exists[FileOf(i)] THEN "present" ELSE "absent")]
    /\ IF PathExists(FileOf(i))
       THEN /\ logged' = [logged EXCEPT ![i] = @ \cup {"Already exists"}]
            /\ outcome' = [outcome EXCEPT ![i] = "Skipped"]
            /\ jpc' = [jpc EXCEPT ![i] = "done"]
            /\ ReleaseWorker(i)
       ELSE /\ jpc' = [jpc EXCEPT ![i] = "get"]
            /\ UNCHANGED <<logged, outcome, busy, idleSem>>
    /\ UNCHANGED <<mainPc, parallel, html_content, exitCode, image_urls,
                   attempt, off, fetchCalls, fails, opens, executions, ranBy,
                   queue, numThreads, nextSubmit, seqIdx>>
    /\ UNCHANGED <<fsVars, extVars>>

\* requests.get(url, stream=True, headers=headers); r.raise_for_status()
get(i) ==
    /\ i \in Jobs
    /\ jpc[i] = "get"
    /\ fetchCalls' = [fetchCalls EXCEPT ![i] = @ + 1]
    /\ steps' = [steps EXCEPT ![i] = Append(@, "fetch")]
    /\ \E r \in {"ok", "ConnectionError", "HTTPError"} :
        IF r = "ok"
        THEN /\ jpc' = [jpc EXCEPT ![i] = "open"]
             /\ UNCHANGED <<logged, fails, outcome, busy, idleSem>>
        ELSE Raise(i, r)
    /\ UNCHANGED <<mainPc, parallel, html_content, exitCode, image_urls,
                   attempt, off, opens, firstCheck, executions, ranBy,
                   queue, numThreads, nextSubmit, seqIdx>>
    /\ UNCHANGED <<fsVars, extVars>>

\* open(local_filename, 'wb'): creates the file or truncates it
open(i) ==
    /\ i \in Jobs
    /\ jpc[i] = "open"
    /\ \E r \in {"ok", "OSError"} :
        IF r = "ok"
        THEN /\ exists' = [exists EXCEPT ![FileOf(i)] = TRUE]
             /\ data' = [data EXCEPT ![FileOf(i)] = <<>>]
             /\ lastWriter' = [lastWriter EXCEPT ![FileOf(i)] = i]
             /\ opens' = [opens EXCEPT ![i] = @ + 1]
             /\ off' = [off EXCEPT ![i] = 0]
             /\ steps' = [steps EXCEPT ![i] = Append(@, "open")]
             /\ jpc' = [jpc EXCEPT ![i] = "write"]
             /\ UNCHANGED <<logged, fails, outcome, busy, idleSem>>
        ELSE /\ Raise(i, r)
             /\ UNCHANGED <<exists, data, lastWriter, opens, off, steps>>
    /\ UNCHANGED <<mainPc, parallel, html_content, exitCode, image_urls,
                   attempt, fetchCalls, firstCheck, executions, ranBy,
                   queue, numThreads, nextSubmit, seqIdx>>
    /\ UNCHANGED extVars

\* for chunk in r.iter_content(...): f.write(chunk); after the last chunk the
\* file is closed and "Downloaded" is reported.
write(i) ==
    /\ i \in Jobs
    /\ jpc[i] = "write"
    /\ \E r \in {"ok", "ChunkedEncodingError", "OSError"} :
        IF r = "ok"
        THEN /\ data' = [data EXCEPT ![FileOf(i)] =
                            WriteAt(@, off[i] + 1, Content(image_urls[i])[off[i] + 1])]
             /\ lastWriter' = [lastWriter EXCEPT ![FileOf(i)] = i]
             /\ off' = [off EXCEPT ![i] = @ + 1]
             /\ IF off[i] + 1 = NChunks
                THEN /\ logged' = [logged EXCEPT ![i] = @ \cup {"Downloaded"}]
                     /\ outcome' = [outcome EXCEPT ![i] = "Downloaded"]
                     /\ steps' = [steps EXCEPT ![i] = @ \o <<"write", "report">>]
                     /\ jpc' = [jpc EXCEPT ![i] = "done"]
                     /\ ReleaseWorker(i)
                ELSE /\ steps' = [steps EXCEPT ![i] = Append(@, "write")]
                     /\ UNCHANGED <<logged, outcome, jpc, busy, idleSem>>
             /\ UNCHANGED fails
        ELSE /\ Raise(i, r)
             /\ UNCHANGED <<data, lastWriter, off, steps>>
    /\ UNCHANGED <<mainPc, parallel, html_content, exitCode, image_urls,
                   exists, attempt, fetchCalls, opens, firstCheck, executions,
                   ranBy, queue, numThreads, nextSubmit, seqIdx>>
    /\ UNCHANGED extVars

\* wait_fixed(2): the sleep ends and the next attempt starts
RetryWithoutCheck(i) ==
    /\ i \in Jobs
    /\ jpc[i] = "wait"
    /\ jpc' = [jpc EXCEPT ![i] = "get"]
    /\ attempt' = [attempt EXCEPT ![i] = @ + 1]
    /\ steps' = [steps EXCEPT ![i] = <<>>]
    /\ UNCHANGED <<mainPc, parallel, html_content, exitCode, image_urls, off,
                   outcome, logged, seqIdx>>
    /\ UNCHANGED <<fsVars, poolVars, jobHist, extVars>>

retry(i) ==
    /\ i \in Jobs
    /\ jpc[i] = "wait"
    /\ jpc' = [jpc EXCEPT ![i] = "check"]
    /\ attempt' = [attempt EXCEPT ![i] = @ + 1]
    /\ steps' = [steps EXCEPT ![i] = <<>>]
    /\ UNCHANGED <<mainPc, parallel, html_content, exitCode, image_urls, off,
                   outcome, logged, seqIdx>>
    /\ UNCHANGED <<fsVars, poolVars, jobHist, extVars>>

\* ------------------------------------------------- main(): parallel mode
\* executor.submit(download_image, url, ...) for the next url
SubmitTwice(q, i) == Append(Append(q, i), i)
Submitted(q, i) == Append(q, i)

\* Every future is done: as_completed() has yielded them all.
AllDone == \A i \in Jobs : jpc[i] = "done"

submit ==
    /\ mainPc = "submit"
    /\ queue' = Submitted(queue, nextSubmit)
    \* ThreadPoolExecutor._adjust_thread_count
    /\ IF idleSem > 0
       THEN idleSem' = idleSem - 1 /\ numThreads' = numThreads
       ELSE /\ idleSem' = idleSem
            /\ numThreads' = IF numThreads < max_workers
                             THEN numThreads + 1 ELSE numThreads
    /\ nextSubmit' = nextSubmit + 1
    /\ mainPc' = IF nextSubmit = Len(image_urls) THEN "as_completed" ELSE mainPc
    /\ UNCHANGED <<parallel, html_content, exitCode, image_urls, jpc, attempt,
                   off, outcome, logged, steps, busy, seqIdx>>
    /\ UNCHANGED <<fsVars, jobHist, extVars>>

\* Worker thread w waits on the work queue.
AlwaysIdle(w) == TRUE
Idle(w) == busy[w] = 0

\* An idle worker thread takes the next work item off the queue.  Idle
\* threads of the pool are interchangeable (they run the same loop and hold
\* no state), so the one with the lowest number stands for whichever wakes up.
worker(w) ==
    /\ w <= numThreads
    /\ Idle(w)
    /\ \A v \in 1..(w - 1) : ~Idle(v)
    /\ queue # <<>>
    /\ LET i == Head(queue) IN
        /\ busy' = [busy EXCEPT ![w] = i]
        /\ jpc' = [jpc EXCEPT ![i] = "check"]
        /\ attempt' = [attempt EXCEPT ![i] = 1]
        /\ steps' = [steps EXCEPT ![i] = <<>>]
        /\ executions' = [executions EXCEPT ![i] = @ + 1]
        /\ ranBy' = [ranBy EXCEPT ![i] = @ \cup {w}]
    /\ queue' = Tail(queue)
    /\ UNCHANGED <<mainPc, parallel, html_content, exitCode, image_urls, off,
                   outcome, logged, fetchCalls, fails, opens, firstCheck,
                   numThreads, idleSem, nextSubmit, seqIdx>>
    /\ UNCHANGED <<fsVars, extVars>>

\* The as_completed loop and the executor's with-block end:
\* "All downloads completed."
completed ==
    /\ mainPc = "as_completed"
    /\ AllDone
    /\ mainPc' = "done"
    /\ exitCode' = 0
    /\ UNCHANGED <<parallel, html_content, image_urls, jpc, attempt, off,
                   outcome, logged, steps, seqIdx>>
    /\ UNCHANGED <<fsVars, poolVars, jobHist, extVars>>

\* ----------------------------------------------- main(): sequential mode
\* for url in image_urls: download_image(url, ...) is called
CallAnyURL ==
    /\ mainPc = "loop"
    /\ \E k \in Jobs :
        /\ jpc[k] = "queued"
        /\ jpc' = [jpc EXCEPT ![k] = "check"]
        /\ attempt' = [attempt EXCEPT ![k] = 1]
        /\ steps' = [steps EXCEPT ![k] = <<>>]
        /\ executions' = [executions EXCEPT ![k] = @ + 1]
        /\ ranBy' = [ranBy EXCEPT ![k] = @ \cup {0}]
    /\ UNCHANGED <<mainPc, parallel, html_content, exitCode, image_urls, off,
                   outcome, logged, fetchCalls, fails, opens, firstCheck,
                   seqIdx>>
    /\ UNCHANGED <<fsVars, poolVars, extVars>>

call ==
    /\ mainPc = "loop"
    /\ jpc[seqIdx] = "queued"
    /\ jpc' = [jpc EXCEPT ![seqIdx] = "check"]
    /\ attempt' = [attempt EXCEPT ![seqIdx] = 1]
    /\ steps' = [steps EXCEPT ![seqIdx] = <<>>]
    /\ executions' = [executions EXCEPT ![seqIdx] = @ + 1]
    /\ ranBy' = [ranBy EXCEPT ![seqIdx] = @ \cup {0}]
    /\ UNCHANGED <<mainPc, parallel, html_content, exitCode, image_urls, off,
                   outcome, logged, fetchCalls, fails, opens, firstCheck,
                   seqIdx>>
    /\ UNCHANGED <<fsVars, poolVars, extVars>>

\* download_image returned, or raised RetryError, which nothing catches:
\* the interpreter prints the traceback and exits with status 1.
return ==
    /\ mainPc = "loop"
    /\ jpc[seqIdx] = "done"
    /\ IF outcome[seqIdx] = "Failed"
       THEN mainPc' = "crashed" /\ exitCode' = 1 /\ seqIdx' = seqIdx
       ELSE IF seqIdx = Len(image_urls)
            THEN mainPc' = "done" /\ exitCode' = 0 /\ seqIdx' = seqIdx
            ELSE mainPc' = mainPc /\ exitCode' = exitCode /\ seqIdx' = seqIdx + 1
    /\ UNCHANGED <<parallel, html_content, image_urls, jpc, attempt, off,
                   outcome, logged, steps>>
    /\ UNCHANGED <<fsVars, poolVars, jobHist, extVars>>

\* ------------------------------------------------- extract_image_urls()
\* One iteration of "for a_tag in soup.find_all('a', href=True)".
scan ==
    /\ next_tag <= Len(a_tags)
    /\ LET href == a_tags[next_tag] IN
        url_set' = IF IsImageLink(href, extensions)
                   THEN url_set \cup {full_url(href, remove_params)}
                   ELSE url_set
    /\ next_tag' = next_tag + 1
    /\ UNCHANGED <<a_tags, extensions, remove_params>>
    /\ UNCHANGED runVars

\* The loop is over: list(image_urls) is returned.
Extracted == next_tag > Len(a_tags)

\* ------------------------------------------------------------------- Spec
\* The download pipeline of main().
Init == RunInit /\ ExtractIdle

Next ==
    \/ get_html_content
    \/ extract
    \/ submit
    \/ \E w \in 1..max_workers : worker(w)
    \/ completed
    \/ call
    \/ return
    \/ \E i \in 1..MaxURLs : check(i)
    \/ \E i \in 1..MaxURLs : get(i)
    \/ \E i \in 1..MaxURLs : open(i)
    \/ \E i \in 1..MaxURLs : write(i)
    \/ \E i \in 1..MaxURLs : retry(i)

Spec == Init /\ [][Next]_vars

\* extract_image_urls() on every page, extension list and rule set of the
\* bounded input sets; main() stands at the call.
ExtractInit ==
    /\ a_tags \in AnchorLists
    /\ extensions \in ExtensionArgs
    /\ remove_params \in RemoveParams
    /\ next_tag = 1
    /\ url_set = {}
    /\ mainPc = "extract"
    /\ parallel = FALSE
    /\ html_content = "page"
    /\ exitCode = -1
    /\ image_urls = <<>>
    /\ exists = [f \in Files |-> FALSE]
    /\ data = [f \in Files |-> <<>>]
    /\ jpc = <<>>
    /\ attempt = <<>>
    /\ off = <<>>
    /\ outcome = <<>>
    /\ logged = <<>>
    /\ fetchCalls = <<>>
    /\ fails = <<>>
    /\ opens = <<>>
    /\ firstCheck = <<>>
    /\ steps = <<>>
    /\ executions = <<>>
    /\ ranBy = <<>>
    /\ lastWriter = [f \in Files |-> 0]
    /\ queue = <<>>
    /\ busy = [w \in 1..max_workers |-> 0]
    /\ numThreads = 0
    /\ idleSem = 0
    /\ nextSubmit = 1
    /\ seqIdx = 1

ExtractNext == scan

SpecExtract == ExtractInit /\ [][ExtractNext]_vars

\* --------------------------------------------------------- a loaded pool
\* Parallel mode with one URL more than the pool has worker threads, every
\* URL with a file name of its own; the output directory holds the files of
\* an earlier run, which stopped before the last MaxMissing URLs; main()
\* stands before the first executor.submit.
PoolSize == max_workers + 1

PoolNames == <<"p1", "p2", "p3", "p4", "p5", "p6", "p7", "p8">>

pool_urls ==
    [k \in 1..PoolSize |->
        base_url \o <<"/", "orderfiles", "/", PoolNames[k], ".jpg">>]

PoolFiles == { local_filename(pool_urls[k]) : k \in 1..PoolSize }

\* Largest number of files of the loaded pool's URLs that the output
\* directory lacks.
MaxMissing == 1

\* Largest number of attempts that raise in one run of the loaded pool.
MaxFaults == 1

\* Attempts that have raised so far, over all jobs.
Faults ==
    Cardinality({ p \in Jobs \X (1..max_attempts) : p[2] <= fails[p[1]] })

PoolInit ==
    /\ mainPc = "submit"
    /\ parallel = TRUE
    /\ html_content = "page"
    /\ exitCode = -1
    /\ image_urls = pool_urls
    /\ exists = [f \in PoolFiles |->
                    \E k \in 1..(PoolSize - MaxMissing) :
                        f = local_filename(pool_urls[k])]
    /\ data = [f \in PoolFiles |-> IF exists[f] THEN Content(OldURL) ELSE <<>>]
    /\ jpc = [i \in 1..PoolSize |-> "queued"]
    /\ attempt = [i \in 1..PoolSize |-> 0]
    /\ off = [i \in 1..PoolSize |-> 0]
    /\ outcome = [i \in 1..PoolSize |-> "None"]
    /\ logged = [i \in 1..PoolSize |-> {}]
    /\ fetchCalls = [i \in 1..PoolSize |-> 0]
    /\ fails = [i \in 1..PoolSize |-> 0]
    /\ opens = [i \in 1..PoolSize |-> 0]
    /\ firstCheck = [i \in 1..PoolSize |-> "none"]
    /\ steps = [i \in 1..PoolSize |-> <<>>]
    /\ executions = [i \in 1..PoolSize |-> 0]
    /\ ranBy = [i \in 1..PoolSize |-> {}]
    /\ lastWriter = [f \in PoolFiles |-> 0]
    /\ queue = <<>>
    /\ busy = [w \in 1..max_workers |-> 0]
    /\ numThreads = 0
    /\ idleSem = 0
    /\ nextSubmit = 1
    /\ seqIdx = 1
    /\ ExtractIdle

PoolNext ==
    \/ submit
    \/ \E w \in 1..max_workers : worker(w)
    \/ completed
    \/ \E i \in 1..PoolSize : check(i)
    \/ \E i \in 1..PoolSize : get(i) /\ Faults' <= MaxFaults
    \/ \E i \in 1..PoolSize : open(i) /\ Faults' <= MaxFaults
    \/ \E i \in 1..PoolSize : write(i) /\ Faults' <= MaxFaults
    \/ \E i \in 1..PoolSize : retry(i)

SpecPool == PoolInit /\ [][PoolNext]_vars

\* ============================================================== claims
\* The run is over: main() returned, called sys.exit or died.
RunOver == exitCode # -1

Resolved(i) == jpc[i] = "done"

\* C1: a job that fails all its attempts does not abort the run: when the
\* run is over and some job has resolved as Failed, every URL of the list has
\* been processed and has its own outcome.
C1_FailedJobDoesNotAbortRun ==
    (RunOver /\ \E i \in Jobs : outcome[i] = "Failed")
        => \A j \in Jobs : outcome[j] \in {"Downloaded", "Skipped", "Failed"}

\* bytes is the whole content of a successful fetch of a URL named like f, or
\* what the file held before the run.
IsComplete(f, bytes) ==
    \/ bytes = Content(OldURL)
    \/ \E u \in RunURLs : local_filename(u) = f /\ bytes = Content(u)

\* C2: whenever a job resolves as Skipped because its file exists, that file
\* holds the complete content of a successful fetch.
C2_SkippedFileIsComplete ==
    [][\A i \in Jobs :
          (outcome[i] # "Skipped" /\ outcome'[i] = "Skipped")
              => IsComplete(FileOf(i), data'[FileOf(i)])]_vars

\* C3: a job whose file exists when its existence check runs resolves as
\* Skipped at once, with zero fetch calls, zero retries and without opening
\* the file for writing; and no job resolves as Skipped after a fetch call of
\* the same attempt.
C3_ExistingFileIsSkipped ==
    \A i \in Jobs :
        /\ firstCheck[i] = "present"
              => /\ Resolved(i)
                 /\ outcome[i] = "Skipped"
                 /\ fetchCalls[i] = 0
                 /\ attempt[i] = 1
                 /\ fails[i] = 0
                 /\ opens[i] = 0
        /\ outcome[i] = "Skipped"
              => Resolved(i) /\ fetchCalls[i] = attempt[i] - 1

C3_Witness ==
    \E i \in Jobs :
        /\ firstCheck[i] = "present"
        /\ outcome[i] = "Skipped"
        /\ fetchCalls[i] = 0
        /\ data[FileOf(i)] = Content(OldURL)

\* C4: a job whose file is absent when it starts, whose first and second
\* attempt fail (whatever raised) and which does not fail a third time
\* resolves as Downloaded, with at most 3 fetch calls.
C4_FailTwiceThenDownloaded ==
    \A i \in Jobs :
        (Resolved(i) /\ firstCheck[i] = "absent" /\ fails[i] = 2)
            => outcome[i] = "Downloaded" /\ fetchCalls[i] <= max_attempts

\* C5: the process exits with code 1 exactly when the listing page has no
\* content or the extraction finds no URL; every other run exits with 0.
C5_ExitCode ==
    RunOver =>
        /\ exitCode \in {0, 1}
        /\ (exitCode = 1) <=> (html_content = "" \/ image_urls = <<>>)

\* C6: when two URLs of the list derive the same file and both jobs have
\* resolved, the file holds exactly the complete content fetched by the job
\* that wrote it last.  (Stated for jobs none of whose attempts failed.)
C6_LastWriteWins ==
    \A i, j \in Jobs :
        (/\ i # j
         /\ FileOf(i) = FileOf(j)
         /\ Resolved(i) /\ Resolved(j)
         /\ fails[i] = 0 /\ fails[j] = 0
         /\ lastWriter[FileOf(i)] # 0)
            => data[FileOf(i)] = Content(image_urls[lastWriter[FileOf(i)]])

\* C7: in parallel mode, when the run reports completion, every URL of the
\* list has been run as a job exactly once, by exactly one worker thread,
\* every job has resolved and no work is left in the queue.
C7_ParallelNoDuplicateNoLostWork ==
    (parallel /\ mainPc = "done") =>
        /\ queue = <<>>
        /\ \A i \in Jobs :
            /\ executions[i] = 1
            /\ Cardinality(ranBy[i]) = 1
            /\ ranBy[i] \subseteq 1..max_workers
            /\ Resolved(i)
            /\ outcome[i] \in {"Downloaded", "Skipped", "Failed"}

C7_Witness ==
    /\ parallel
    /\ mainPc = "done"
    /\ Len(image_urls) >= 2
    /\ \E i \in Jobs : outcome[i] = "Failed"
    /\ \E i \in Jobs : outcome[i] = "Downloaded"

\* The terminal outcomes on record for the URL of job i: the "Downloaded"
\* and "Already exists" reports, and the RetryError of a job that failed.
Recorded(i) ==
    { o \in {"Downloaded", "Skipped", "Failed"} :
        \/ o = "Downloaded" /\ "Downloaded" \in logged[i]
        \/ o = "Skipped" /\ "Already exists" \in logged[i]
        \/ o = "Failed" /\ outcome[i] = "Failed" }

\* C8: when a run that started its downloads is over, exactly one terminal
\* outcome is on record for each URL of the list.
C8_OneOutcomePerURL ==
    RunOver => \A i \in Jobs : Cardinality(Recorded(i)) = 1

\* Number of positions of s that hold x.
Count(s, x) == Cardinality({ k \in DOMAIN s : s[k] = x })

\* Two hrefs with the same path whose query strings carry the same
\* parameters (names and values), in any order.
SameParameters(h1, h2) ==
    LET p1 == parse_qsl(urlparse(h1).query)
        p2 == parse_qsl(urlparse(h2).query)
    IN  /\ urlparse(h1).path = urlparse(h2).path
        /\ Len(p1) = Len(p2)
        /\ \A k \in DOMAIN p1 : Count(p1, p1[k]) = Count(p2, p1[k])

\* C9: two extracted hrefs with the same path and the same query parameters
\* in a different order canonicalize to the same URL, so the result holds a
\* single entry for them.
C9_ParameterOrderIrrelevant ==
    Extracted =>
        \A i, j \in DOMAIN a_tags :
            (/\ IsImageLink(a_tags[i], extensions)
             /\ IsImageLink(a_tags[j], extensions)
             /\ SameParameters(a_tags[i], a_tags[j]))
                => \E u \in url_set :
                      /\ u = full_url(a_tags[i], remove_params)
                      /\ u = full_url(a_tags[j], remove_params)

\* The parameter names of the query string of url.
QueryKeys(url) ==
    LET d == parse_qs(urlparse(url).query) IN { d[k].name : k \in DOMAIN d }

\* C10: with raw_image set, no URL of the result has a query key that is
\* width or height in any letter case.
C10_NoDimensionKeys ==
    (Extracted /\ remove_params.raw_image) =>
        \A u \in url_set :
            \A key \in QueryKeys(u) : lower(key) \notin {<<"width">>, <<"height">>}

\* The parameter names the active rules remove (lines 128-138).
RemovedNames(rp) ==
    (IF rp.raw_image THEN {<<"width">>, <<"height">>} ELSE {})
    \cup (IF rp.no_watermark THEN {<<"watermark">>} ELSE {})
    \cup { rp.additional_params[k] : k \in DOMAIN rp.additional_params }

\* Two hrefs with the same path and the same parameter names at the same
\* places, whose values differ at most for the parameters in names.
DifferOnlyInValuesOf(h1, h2, names) ==
    LET p1 == parse_qsl(urlparse(h1).query)
        p2 == parse_qsl(urlparse(h2).query)
    IN  /\ urlparse(h1).path = urlparse(h2).path
        /\ urlparse(h1).fragment = urlparse(h2).fragment
        /\ Len(p1) = Len(p2)
        /\ \A k \in DOMAIN p1 :
              /\ p1[k].name = p2[k].name
              /\ p1[k].value # p2[k].value => p1[k].name \in names

\* The URLs of the result that come from the hrefs h1 and h2.
YieldOf(h1, h2) ==
    url_set \cap {full_url(h1, remove_params), full_url(h2, remove_params)}

\* C11: the result is a set of URLs.  Two extracted anchors with the same
\* path that differ only in the values of parameters the active rules remove
\* yield exactly one URL; with no rule active, anchors that differ only in
\* parameter values yield one URL per distinct query string.
C11_DuplicatesCollapse ==
    Extracted =>
        \A i, j \in DOMAIN a_tags :
            (IsImageLink(a_tags[i], extensions) /\ IsImageLink(a_tags[j], extensions))
            => /\ DifferOnlyInValuesOf(a_tags[i], a_tags[j], RemovedNames(remove_params))
                    => Cardinality(YieldOf(a_tags[i], a_tags[j])) = 1
               /\ (/\ RemovedNames(remove_params) = {}
                   /\ DifferOnlyInValuesOf(a_tags[i], a_tags[j],
                                           QueryKeys(a_tags[i])))
                    => Cardinality(YieldOf(a_tags[i], a_tags[j]))
                         = Cardinality({urlparse(a_tags[i]).query,
                                        urlparse(a_tags[j]).query})

C11_Witness ==
    /\ Extracted
    /\ Len(a_tags) = 2
    /\ a_tags[1] # a_tags[2]
    /\ IsImageLink(a_tags[1], extensions)
    /\ IsImageLink(a_tags[2], extensions)
    /\ RemovedNames(remove_params) # {}
    /\ DifferOnlyInValuesOf(a_tags[1], a_tags[2], RemovedNames(remove_params))
    /\ QueryKeys(a_tags[1]) \cap RemovedNames(remove_params) # {}
    /\ url_set = {base_url \o OrderFile}

\* C12: a run whose page fetch gave no content or whose extraction gave no
\* URL exits non-zero without having started a job, issued an image fetch or
\* written a file; and a run that ends before "All downloads completed" is
\* such a run.
C12_OnlyEmptyPageOrNoURLsAbort ==
    /\ (RunOver /\ (html_content = "" \/ image_urls = <<>>))
          => /\ exitCode # 0
             /\ mainPc = "exit"
             /\ \A i \in Jobs : executions[i] = 0 /\ fetchCalls[i] = 0
             /\ \A f \in DOMAIN lastWriter : lastWriter[f] = 0
    /\ (RunOver /\ mainPc # "done")
          => (html_content = "" \/ image_urls = <<>>)

\* C13: a job never makes more than 3 attempts, it is Failed only after 3
\* failed attempts, and once it has resolved it takes no further step: no
\* new attempt, no fetch call.
C13_AtMostThreeAttempts ==
    /\ [](\A i \in Jobs :
            /\ attempt[i] <= 3
            /\ fails[i] <= attempt[i]
            /\ outcome[i] = "Failed" => (fails[i] = 3 /\ attempt[i] = 3))
    /\ [][\A i \in Jobs :
            Resolved(i) => /\ jpc'[i] = "done"
                           /\ attempt'[i] = attempt[i]
                           /\ fetchCalls'[i] = fetchCalls[i]
                           /\ outcome'[i] = outcome[i]]_vars

C13_Witness ==
    \E i, j \in Jobs :
        /\ outcome[i] = "Failed" /\ fails[i] = 3 /\ attempt[i] = 3
        /\ outcome[j] = "Downloaded" /\ attempt[j] = 3

\* The steps of an attempt that runs to the end, in the order of the code.
AttemptOrder ==
    <<"absent", "fetch", "open">> \o [k \in 1..NChunks |-> "write"] \o <<"report">>

\* C14: in every attempt the existence check comes before the fetch call,
\* the fetch call before the file is opened and written, the Downloaded
\* report after the last write; an attempt whose check found the file makes
\* no fetch call.  (The steps of an attempt are the check that found the
\* file and nothing else, or an initial part of AttemptOrder.)
C14_CheckFetchWriteReport ==
    \A i \in Jobs :
        /\ \/ steps[i] = <<"present">>
           \/ /\ Len(steps[i]) <= Len(AttemptOrder)
              /\ steps[i] = SubSeq(AttemptOrder, 1, Len(steps[i]))
        /\ "Downloaded" \in logged[i] => steps[i] = AttemptOrder

C14_Witness ==
    \E i \in Jobs :
        /\ attempt[i] > 1
        /\ outcome[i] = "Downloaded"
        /\ steps[i][1] = "absent"
        /\ steps[i][2] = "fetch"
        /\ steps[i][Len(steps[i])] = "report"

\* The jobs in progress: started and not yet resolved (sleeping between two
\* attempts included).
InProgress == { i \in Jobs : jpc[i] \notin {"queued", "done"} }

\* C15: in sequential mode at most one job is in progress, and a job has not
\* started before every URL before it in the list has resolved.
C15_SequentialOneAtATime ==
    ~parallel =>
        /\ Cardinality(InProgress) <= 1
        /\ \A i, j \in Jobs : (i < j /\ jpc[j] # "queued") => Resolved(i)

C15_Witness ==
    /\ ~parallel
    /\ Len(image_urls) >= 2
    /\ Resolved(1)
    /\ fails[1] > 0
    /\ jpc[2] = "write"

\* The URLs of the list derive pairwise distinct local file names.
DistinctNames ==
    \A i, j \in Jobs :
        i < j => local_filename(image_urls[i]) # local_filename(image_urls[j])

\* C17: in parallel mode with pairwise distinct local file names, no two jobs
\* have the same path open for writing at once, and a job that has a file
\* open and writes it is the one whose URL derives that file name.
\* (Stated as: no state shows a shared path, or a foreign writer, while the
\* names are distinct.)
C17_DisjointFilesNoSharedWrite ==
    parallel =>
        /\ \A i, j \in Jobs :
              ~(/\ i < j
                /\ jpc[i] = "write" /\ jpc[j] = "write"
                /\ FileOf(i) = FileOf(j)
                /\ DistinctNames)
        /\ \A f \in DOMAIN lastWriter :
              ~(/\ lastWriter[f] # 0
                /\ jpc[lastWriter[f]] = "write"
                /\ local_filename(image_urls[lastWriter[f]]) # f
                /\ DistinctNames)

C17_Witness ==
    /\ parallel
    /\ Len(image_urls) >= 2
    /\ local_filename(image_urls[1]) # local_filename(image_urls[2])
    /\ jpc[1] = "write" /\ jpc[2] = "write"
    /\ lastWriter[local_filename(image_urls[1])] = 1
    /\ lastWriter[local_filename(image_urls[2])] = 2

\* C19: a file that exists and that no job of this run has opened (so it was
\* there when the run started) is left as it is by every step: not opened,
\* not truncated, not written.
C19_PreexistingFileUntouched ==
    [][\A f \in DOMAIN exists :
          (exists[f] /\ lastWriter[f] = 0)
              => /\ exists'[f]
                 /\ lastWriter'[f] = 0
                 /\ data'[f] = data[f]]_vars

C19_Witness ==
    /\ parallel
    /\ \E i, j \in Jobs :
        /\ i # j
        /\ FileOf(i) = FileOf(j)
        /\ outcome[i] = "Skipped" /\ outcome[j] = "Skipped"
        /\ exists[FileOf(i)]
        /\ lastWriter[FileOf(i)] = 0
        /\ data[FileOf(i)] = Content(OldURL)

\* C20: the existence check runs in every attempt.  A second or third
\* attempt that finds a file at the job's path ends the job at once as
\* "Already exists": no fetch call in that attempt, and the job is reported
\* neither as Downloaded nor as Failed.
C20_RetryFindsFileSkips ==
    \A i \in Jobs :
        /\ (attempt[i] > 1 /\ jpc[i] # "check")
              => (steps[i] # <<>> /\ steps[i][1] \in {"absent", "present"})
        /\ (attempt[i] > 1 /\ steps[i] # <<>> /\ steps[i][Len(steps[i])] = "present")
              => /\ Resolved(i)
                 /\ outcome[i] = "Skipped"
                 /\ "Already exists" \in logged[i]
                 /\ "Downloaded" \notin logged[i]
                 /\ steps[i] = <<"present">>
                 /\ fetchCalls[i] = fails[i]
                 /\ fetchCalls[i] < attempt[i]

C20_Witness ==
    \E i \in Jobs :
        /\ attempt[i] > 1
        /\ outcome[i] = "Skipped"
        /\ fails[i] = attempt[i] - 1
        /\ lastWriter[FileOf(i)] # i

\* The path of href contains the segment /orderfiles/.
PathHasMarker(href) == Contains(urlparse(href).path, <<"/", "orderfiles", "/">>)

\* The path of href ends in one of the extensions, letter case ignored.
PathHasExtension(href, exts) ==
    \E k \in DOMAIN exts : EndsWith(lower(urlparse(href).path), lower(exts[k]))

\* C18: the result holds the URLs of exactly those anchors whose path
\* contains /orderfiles/ and ends in one of the extensions (case ignored);
\* /orderfiles/ in the query string or the fragment does not count.
C18_MarkerInPathAndExtension ==
    Extracted =>
        url_set = { full_url(a_tags[k], remove_params) :
                      k \in { n \in DOMAIN a_tags :
                                /\ PathHasMarker(a_tags[n])
                                /\ PathHasExtension(a_tags[n], extensions) } }

\* C16: in parallel mode at most 5 jobs are in progress in any state, with
\* more URLs than workers; every job in progress is held by one of the at
\* most 5 worker threads, so that a sixth starts only when a worker is free.
C16_AtMostFiveInProgress ==
    parallel =>
        /\ Cardinality(InProgress) <= 5
        /\ numThreads <= 5
        /\ \A i \in InProgress : \E w \in 1..numThreads : busy[w] = i
        /\ \A w \in DOMAIN busy : busy[w] # 0 => busy[w] \in InProgress

C16_Witness ==
    /\ parallel
    /\ Len(image_urls) > 5
    /\ Cardinality(InProgress) = 5
    /\ Len(image_urls) \in InProgress
    /\ \E i \in InProgress : jpc[i] = "wait"

====
